---------------------------- MODULE Spec2Model ----------------------------
(***************************************************************************)
(* A model of the anomaly-detection server: the WebSocket connection       *)
(* handler (server.py, Server.ws_handler), the SQLite store it reads and   *)
(* writes (database.py, DatabaseManager) and the detector ensemble         *)
(* (detection.py, AnomalyDetector).                                        *)
(*                                                                         *)
(* The server runs on one asyncio event loop.  A handler gives up control  *)
(* only at an await (accept, receive_text, send_text, close); the store    *)
(* calls and the detectors are synchronous, so everything between two      *)
(* awaits of one handler is one atomic step of the model.                  *)
(***************************************************************************)
EXTENDS Integers, Sequences, FiniteSets, TLC

(***************************************************************************)
(* Bounds of the model.                                                    *)
(***************************************************************************)
\* the number of rows the timeseries table may hold with two connections
MaxPoints == 2
\* the number of rows it may hold with one connection
MaxSoloPoints == 3
\* the number of rows it may hold when the store is exercised on its own
MaxRows == 3
\* the largest window size the store is read with on its own
MaxWindow == 3
\* the number of rows the table may hold with two producers streaming
MaxDuoPoints == 4
\* the number of points the producer of the end-to-end scenario may send
MaxScenarioPoints == 4
\* the length of the sequences the ensemble is given on its own
MaxDataLen == 5

\* the connections the server may be given (one ws_handler task each), in
\* the order they arrive
Sessions == {"s1", "s2"}
Earlier(s) == IF s = "s2" THEN {"s1"} ELSE {}
\* the readings of the wall clock (strftime('%s', 'now'))
Times == {0, 1}
\* the producer identities a metadata message may carry
ClientIds == {"a", "b"}
\* the timestamps and values a data point may carry
Timestamps == {1, 2}
Values == {1, 100}
\* the window sizes a metadata message may declare (0 and -1 are not
\* positive: 0 is falsy in Python, -1 is truthy)
Windows == {-1, 0, 1, 2}
\* the same for a server that is given one connection only
SoloSessions == {"s1"}
SoloClientIds == {"a"}
SoloValues == {1, 2, 100}
SoloWindows == {2, 3}
\* the same for two connections whose producers declare the same window and
\* stamp every point alike
DuoWindows == {2}
DuoTimestamps == {1}
\* the same for the producer of the end-to-end scenario, which declares
\* window 3 and may stamp its points 1, 2, 3, 4
ScenarioWindows == {3}
ScenarioTimestamps == {1, 2, 3, 4}
\* the values of the sequences the ensemble is given on its own
DetectValues == {-100, 1, 2, 100}

(***************************************************************************)
(* Optional values: a JSON field that is missing or null reads as None     *)
(* through dict.get.                                                       *)
(***************************************************************************)
None == << >>
Some(v) == << v >>
Get(o) == o[1]

\* the value of a local variable that no assignment has reached yet
Unbound == "<unbound>"

(***************************************************************************)
(* Python dicts and the clients table as functions over their keys.        *)
(***************************************************************************)
EmptyDict == [k \in {} |-> 0]
Put(d, k, v) == [x \in (DOMAIN d) \cup {k} |-> IF x = k THEN v ELSE d[x]]
Del(d, k) == [x \in (DOMAIN d) \ {k} |-> d[x]]

Min(a, b) == IF a < b THEN a ELSE b
Abs(x) == IF x < 0 THEN -x ELSE x

RECURSIVE Reverse(_)
Reverse(s) == IF s = << >> THEN << >> ELSE Append(Reverse(Tail(s)), Head(s))

RECURSIVE SumSeq(_)
SumSeq(s) == IF s = << >> THEN 0 ELSE Head(s) + SumSeq(Tail(s))

(***************************************************************************)
(* The messages a producer may send.  kind "text" is a payload json.loads  *)
(* rejects, kind "array" is valid JSON that is not an object (it has no    *)
(* .get), kind "object" is a JSON object whose fields are read with .get.  *)
(***************************************************************************)
MetaMsgsOver(ids, windows) ==
    { [kind |-> k, client_id |-> None, window |-> None] : k \in {"text", "array"} }
    \cup
    { [kind |-> "object", client_id |-> c, window |-> w] :
        c \in {None, Some("")} \cup { Some(i) : i \in ids },
        w \in {None} \cup { Some(n) : n \in windows } }

PointMsgsOver(timestamps, vals) ==
    { [kind |-> k, timestamp |-> None, value |-> None] : k \in {"text", "array"} }
    \cup
    { [kind |-> "object", timestamp |-> t, value |-> v] :
        t \in {None} \cup { Some(n) : n \in timestamps },
        v \in {None} \cup { Some(n) : n \in vals } }

MetaMsgs == MetaMsgsOver(ClientIds, Windows)
PointMsgs == PointMsgsOver(Timestamps, Values)
SoloMetaMsgs == MetaMsgsOver(SoloClientIds, SoloWindows)
SoloPointMsgs == PointMsgsOver(Timestamps, SoloValues)
DuoMetaMsgs == MetaMsgsOver(ClientIds, DuoWindows)
DuoPointMsgs == PointMsgsOver(DuoTimestamps, SoloValues)
ScenarioMetaMsgs == MetaMsgsOver(SoloClientIds, ScenarioWindows)
ScenarioPointMsgs == PointMsgsOver(ScenarioTimestamps, Values)
\* every message of the model
AnyMetaMsgs == MetaMsgs \cup SoloMetaMsgs \cup DuoMetaMsgs \cup ScenarioMetaMsgs
AnyPointMsgs ==
    PointMsgs \cup SoloPointMsgs \cup DuoPointMsgs \cup ScenarioPointMsgs

\* a client_id test that lets the empty string through (is not None)
TruthyIdNoneOnly(o) == o # None

\* Python truthiness of a decoded metadata field: None, "" and 0 are falsy
TruthyId(o) == o # None /\ Get(o) # ""
TruthyWindow(o) == o # None /\ Get(o) # 0

(***************************************************************************)
(* The replies and the close code of the protocol.                         *)
(***************************************************************************)
NoReply == [kind |-> "none", timestamp |-> 0, anomaly |-> 0]
ErrorReply == [kind |-> "error", timestamp |-> 0, anomaly |-> 0]
\* a reply that always reports the point as normal
VerdictReplyFlagDropped(t, a) == [kind |-> "verdict", timestamp |-> t, anomaly |-> 0]

VerdictReply(t, a) == [kind |-> "verdict", timestamp |-> t, anomaly |-> a]
ProtocolErrorCode == 4001

VARIABLES
    pc,            \* where each connection's ws_handler task stands
    client_id,     \* ws_handler's local client_id
    window,        \* ws_handler's local window (as decoded, not int(window))
    reply,         \* the reply the handler is about to send
    closeCode,     \* the code the handler closed the connection with (0: none)
    values,        \* the sequence the handler passed to detect_anomaly
    clients,       \* Server.clients: the live-clients dict
    clientsTable,  \* the clients table: client_id -> last_seen
    timeseries,    \* the timeseries table, in rowid order
    now            \* the latest reading of the wall clock

vars == << pc, client_id, window, reply, closeCode, values,
           clients, clientsTable, timeseries, now >>

(***************************************************************************)
(* database.py                                                             *)
(***************************************************************************)
\* a selection without WHERE client_id = ?
RowsOfAnyClient(ts, cid) == DOMAIN ts

\* the rowids of one client's rows
RowsOf(ts, cid) == { i \in 1..Len(ts) : ts[i].client_id = cid }

\* an ORDER BY rowid DESC: the latest inserts first, whatever their timestamps
RECURSIVE OrderByRowidDesc(_, _)
OrderByRowidDesc(ts, S) ==
    IF S = {} THEN << >>
    ELSE LET m == CHOOSE i \in S : \A j \in S : i >= j
         IN  << m >> \o OrderByRowidDesc(ts, S \ {m})

\* ORDER BY timestamp DESC over the index idx_client_timestamp, whose
\* entries are (client_id, timestamp, rowid): walked backwards, rows of equal
\* timestamp come out in descending rowid order
RECURSIVE OrderByTimestampDesc(_, _)
OrderByTimestampDesc(ts, S) ==
    IF S = {} THEN << >>
    ELSE LET m == CHOOSE i \in S : \A j \in S :
                      \/ ts[i].timestamp > ts[j].timestamp
                      \/ ts[i].timestamp = ts[j].timestamp /\ i >= j
         IN  << m >> \o OrderByTimestampDesc(ts, S \ {m})

\* ORDER BY timestamp ASC over the same index: ascending rowid among equals
RECURSIVE OrderByTimestampAsc(_, _)
OrderByTimestampAsc(ts, S) ==
    IF S = {} THEN << >>
    ELSE LET m == CHOOSE i \in S : \A j \in S :
                      \/ ts[i].timestamp < ts[j].timestamp
                      \/ ts[i].timestamp = ts[j].timestamp /\ i <= j
         IN  << m >> \o OrderByTimestampAsc(ts, S \ {m})

\* LIMIT n: SQLite reads a negative LIMIT as no limit
Limit(rows, n) == IF n < 0 THEN rows ELSE SubSeq(rows, 1, Min(n, Len(rows)))

\* the selection without the final rows[::-1]
WindowRowidsNotReversed(ts, cid, w) ==
    Limit(OrderByTimestampDesc(ts, RowsOf(ts, cid)), w)

\* the rowids get_window_points selects, in the order it returns them
WindowRowids(ts, cid, w) ==
    Reverse(Limit(OrderByTimestampDesc(ts, RowsOf(ts, cid)), w))

get_window_points(ts, cid, w) ==
    LET ids == WindowRowids(ts, cid, w)
    IN  [k \in 1..Len(ids) |-> << ts[ids[k]].timestamp, ts[ids[k]].value >>]

get_all_client_points(ts, cid) ==
    LET ids == OrderByTimestampAsc(ts, RowsOf(ts, cid))
    IN  [k \in 1..Len(ids) |->
            << ts[ids[k]].timestamp, ts[ids[k]].value, ts[ids[k]].anomaly >>]

\* an INSERT OR REPLACE keyed on (client_id, timestamp)
add_point_or_replace(ts, cid, t, v, a) ==
    LET row == [client_id |-> cid, timestamp |-> t, value |-> v, anomaly |-> a]
        same == { i \in 1..Len(ts) : ts[i].client_id = cid /\ ts[i].timestamp = t }
    IN  IF same = {} THEN Append(ts, row)
        ELSE [i \in 1..Len(ts) |-> IF i \in same THEN row ELSE ts[i]]

add_point(ts, cid, t, v, a) ==
    Append(ts, [client_id |-> cid, timestamp |-> t, value |-> v, anomaly |-> a])

\* INSERT ... ON CONFLICT(client_id) DO UPDATE SET last_seen = now
add_client(tbl, cid, t) == Put(tbl, cid, t)

\* UPDATE clients SET last_seen = now WHERE client_id = ?
update_client_last_seen(tbl, cid, t) ==
    IF cid \in DOMAIN tbl THEN Put(tbl, cid, t) ELSE tbl

get_all_clients(tbl) == { << c, tbl[c] >> : c \in DOMAIN tbl }

(***************************************************************************)
(* detection.py.  The detectors compute in floating point; the model       *)
(* computes the same quantities exactly, each comparison multiplied out to *)
(* integers.  Fractional thresholds are held times ten (or times 10^4).    *)
(***************************************************************************)
MajorityVotingTimes10 == 5
ZScoreThreshold == 2
IqrThresholdTimes10 == 15
EwmaAlphaTimes10 == 3
EwmaThreshold == 5
MovingAverageWindow == 5
MovingAverageThreshold == 3
ModifiedZThresholdTimes10 == 35
ModifiedZFactorTimes10000 == 6745
ForestMinLen == 2

RECURSIVE Pow10(_)
Pow10(n) == IF n = 0 THEN 1 ELSE 10 * Pow10(n - 1)

Sorted(data) == SortSeq(data, LAMBDA a, b : a < b)

\* abs((data[-1] - mean) / std) > threshold; a zero std gives nan, and
\* every comparison with nan is False
\* a Z-score test against thresholds["iqr"] instead of thresholds["z_score"]
z_score_wrong_threshold(data) ==
    LET n == Len(data)
        s == SumSeq(data)
        sq == SumSeq([i \in 1..n |-> data[i] * data[i]])
        var == n * sq - s * s
        dev == n * data[n] - s
    IN  IF var = 0 THEN FALSE
        ELSE 100 * dev * dev > IqrThresholdTimes10 * IqrThresholdTimes10 * var

z_score_detector(data) ==
    LET n == Len(data)
        s == SumSeq(data)
        sq == SumSeq([i \in 1..n |-> data[i] * data[i]])
        var == n * sq - s * s
        dev == n * data[n] - s
    IN  IF var = 0 THEN FALSE
        ELSE dev * dev > ZScoreThreshold * ZScoreThreshold * var

\* four times np.percentile(data, q) for q = 25 * quarter (linear
\* interpolation between the two nearest ranks)
PercentileTimes4(data, quarter) ==
    LET a == Sorted(data)
        pos == quarter * (Len(data) - 1)
        k == pos \div 4
        r == pos % 4
    IN  IF r = 0 THEN 4 * a[k + 1]
        ELSE 4 * a[k + 1] + r * (a[k + 2] - a[k + 1])

iqr_detector(data) ==
    LET q1 == PercentileTimes4(data, 1)
        q3 == PercentileTimes4(data, 3)
        iqr_value == q3 - q1
        last == 40 * data[Len(data)]
    IN  \/ last < 10 * q1 - IqrThresholdTimes10 * iqr_value
        \/ last > 10 * q3 + IqrThresholdTimes10 * iqr_value

\* ewma[-1] times 10^(len(data) - 1)
RECURSIVE EwmaScaled(_)
EwmaScaled(data) ==
    LET n == Len(data)
    IN  IF n = 1 THEN data[1]
        ELSE EwmaAlphaTimes10 * data[n] * Pow10(n - 2)
             + (10 - EwmaAlphaTimes10) * EwmaScaled(SubSeq(data, 1, n - 1))

ewma_detector(data) ==
    LET n == Len(data)
        residual == data[n] * Pow10(n - 1) - EwmaScaled(data)
    IN  Abs(residual) > EwmaThreshold * Pow10(n - 1)

moving_average_detector(data) ==
    LET n == Len(data)
        w == MovingAverageWindow
    IN  IF n < w THEN FALSE
        ELSE Abs(w * data[n] - SumSeq(SubSeq(data, n - w + 1, n)))
                 > MovingAverageThreshold * w

\* twice np.median(data)
MedianTimes2(data) ==
    LET a == Sorted(data)
        n == Len(data)
    IN  IF n % 2 = 1 THEN 2 * a[(n + 1) \div 2]
        ELSE a[n \div 2] + a[n \div 2 + 1]

\* the detector without its mad == 0 guard: a nonzero deviation over a zero
\* MAD is inf, which is above the threshold; 0 / 0 is nan, which is not
modified_z_score_unguarded(data) ==
    LET n == Len(data)
        median == MedianTimes2(data)
        dev == [i \in 1..n |-> Abs(2 * data[i] - median)]
        mad == MedianTimes2(dev)
    IN  IF mad = 0 THEN dev[n] # 0
        ELSE ModifiedZFactorTimes10000 * 2 * dev[n] * 10
                 > ModifiedZThresholdTimes10 * 10000 * mad

modified_z_score_detector(data) ==
    LET n == Len(data)
        median == MedianTimes2(data)
        dev == [i \in 1..n |-> Abs(2 * data[i] - median)]
        mad == MedianTimes2(dev)
    IN  IF mad = 0 THEN FALSE
        ELSE ModifiedZFactorTimes10000 * 2 * dev[n] * 10
                 > ModifiedZThresholdTimes10 * 10000 * mad

\* data[-10:], the points the forest is fitted on
ForestSliceLen == 10
ForestSlice(data) ==
    SubSeq(data, Len(data) - Min(Len(data), ForestSliceLen) + 1, Len(data))

\* at least three points, all equal but the last.  Every tree is grown on
\* the whole slice and its first split parts the last point from the rest,
\* which no split can part: the last point has the shortest path in every
\* tree, so its score is below the contamination quantile of the scores
LoneOutlier(d) ==
    /\ Len(d) >= 3
    /\ \A i \in 1..(Len(d) - 1) : d[i] = d[1]
    /\ d[Len(d)] # d[1]

\* a test for the label of an inlier (anomaly[-1] == 1)
isolation_forest_inlier_label(data, forest) ==
    IF Len(data) < ForestMinLen THEN FALSE
    ELSE IF LoneOutlier(ForestSlice(data)) THEN FALSE
    ELSE ~forest

\* IsolationForest is fitted with an unseeded random state: above the length
\* guard its vote is whatever the fit gives, here the argument forest,
\* unless the fitted points leave the trees no choice
isolation_forest_detector(data, forest) ==
    IF Len(data) < ForestMinLen THEN FALSE
    ELSE IF LoneOutlier(ForestSlice(data)) THEN TRUE
    ELSE forest

anomaly_votes(data, forest) ==
    << z_score_detector(data), iqr_detector(data), ewma_detector(data),
       moving_average_detector(data), modified_z_score_detector(data),
       isolation_forest_detector(data, forest) >>

\* a vote that wants more than the threshold (>) instead of at least it
VoteStrictMajority(votes) ==
    LET yes == Cardinality({ i \in 1..Len(votes) : votes[i] })
    IN  IF 10 * yes > MajorityVotingTimes10 * Len(votes) THEN 1 ELSE 0

\* int(sum(votes) / len(votes) >= majority_voting)
Vote(votes) ==
    LET yes == Cardinality({ i \in 1..Len(votes) : votes[i] })
    IN  IF 10 * yes >= MajorityVotingTimes10 * Len(votes) THEN 1 ELSE 0

detect_anomaly(data, forest) == Vote(anomaly_votes(data, forest))

(***************************************************************************)
(* server.py: Server.__init__ and Server.ws_handler.                       *)
(*                                                                         *)
(* pc: "idle" (no connection yet), "await_meta" (suspended in the first    *)
(* receive_text), "recv" (suspended in the loop's receive_text), "send"    *)
(* (about to send_text the reply), "done" (the handler returned), "raised" *)
(* (an exception left the handler).                                        *)
(***************************************************************************)
Init ==
    /\ pc = [s \in Sessions |-> "idle"]
    /\ client_id = [s \in Sessions |-> Unbound]
    /\ window = [s \in Sessions |-> 0]
    /\ reply = [s \in Sessions |-> NoReply]
    /\ closeCode = [s \in Sessions |-> 0]
    /\ values = [s \in Sessions |-> << >>]
    /\ clients = EmptyDict
    /\ clientsTable = EmptyDict
    /\ timeseries = << >>
    /\ now = 0

\* the session states of the protocol
AwaitingMetadata(s) == pc[s] = "await_meta"
Streaming(s) == pc[s] \in {"recv", "send"}
Closed(s) == pc[s] \in {"done", "raised"}

\* the handler's frame is gone: its locals hold nothing any more
Leave(s, how) ==
    /\ pc' = [pc EXCEPT ![s] = how]
    /\ client_id' = [client_id EXCEPT ![s] = Unbound]
    /\ window' = [window EXCEPT ![s] = 0]
    /\ reply' = [reply EXCEPT ![s] = NoReply]
    /\ values' = [values EXCEPT ![s] = << >>]

\* except Exception: print(...) and fall off the end of the handler
Swallow(s) ==
    /\ Leave(s, "done")
    /\ UNCHANGED << closeCode, clients, clientsTable, timeseries, now >>

\* strftime('%s', 'now'): a reading of the wall clock is never earlier than
\* the reading before it
Readings == { t \in Times : t = now \/ t = now + 1 }

\* except WebSocketDisconnect, with client_id = cid; dbOk: whether
\* update_client_last_seen succeeds (its exception is raised inside the
\* except clause, which nothing catches), t: the time it reads
OnDisconnect(s, cid, dbOk, t) ==
    IF cid \in DOMAIN clients
    THEN /\ clients' = Del(clients, cid)
         /\ IF dbOk
            THEN /\ clientsTable' = update_client_last_seen(clientsTable, cid, t)
                 /\ now' = t
                 /\ Leave(s, "done")
            ELSE /\ UNCHANGED << clientsTable, now >>
                 /\ Leave(s, "raised")
         /\ UNCHANGED << closeCode, timeseries >>
    ELSE /\ Leave(s, "done")
         /\ UNCHANGED << closeCode, clients, clientsTable, timeseries, now >>

\* await websocket.accept()
Accept(s) ==
    /\ pc[s] = "idle"
    /\ \A o \in Earlier(s) : pc[o] # "idle"
    /\ pc' = [pc EXCEPT ![s] = "await_meta"]
    /\ UNCHANGED << client_id, window, reply, closeCode, values,
                    clients, clientsTable, timeseries, now >>

\* the first receive_text raises WebSocketDisconnect: the except clause
\* reads client_id, which is not bound yet (UnboundLocalError)
DisconnectBeforeMetadata(s) ==
    /\ pc[s] = "await_meta"
    /\ Leave(s, "raised")
    /\ UNCHANGED << closeCode, clients, clientsTable, timeseries, now >>

\* json.loads raises on the first message m, or the decoded value has no
\* .get: except Exception
MetadataUndecodable(s, m) ==
    /\ pc[s] = "await_meta"
    /\ m.kind # "object"
    /\ Swallow(s)

\* if not client_id or not window: close(code=4001); return
MetadataRejected(s, m) ==
    /\ pc[s] = "await_meta"
    /\ m.kind = "object"
    /\ ~TruthyId(m.client_id) \/ ~TruthyWindow(m.window)
    /\ closeCode' = [closeCode EXCEPT ![s] = ProtocolErrorCode]
    /\ Leave(s, "done")
    /\ UNCHANGED << clients, clientsTable, timeseries, now >>

\* the client is put in self.clients and then in the clients table (which
\* reads the clock, t); when add_client raises (not dbOk), the dict entry is
\* already made
MetadataAccepted(s, m, dbOk, t) ==
    /\ pc[s] = "await_meta"
    /\ m.kind = "object"
    /\ TruthyId(m.client_id) /\ TruthyWindow(m.window)
    /\ clients' = Put(clients, Get(m.client_id),
                      [websocket |-> s, window |-> Get(m.window)])
    /\ IF dbOk
       THEN /\ clientsTable' = add_client(clientsTable, Get(m.client_id), t)
            /\ now' = t
            /\ pc' = [pc EXCEPT ![s] = "recv"]
            /\ client_id' = [client_id EXCEPT ![s] = Get(m.client_id)]
            /\ window' = [window EXCEPT ![s] = Get(m.window)]
            /\ UNCHANGED << reply, values >>
       ELSE /\ UNCHANGED << clientsTable, now >>
            /\ Leave(s, "done")
    /\ UNCHANGED << closeCode, timeseries >>

\* json.loads raises on a later message m, or the decoded value has no .get
PointUndecodable(s, m) ==
    /\ pc[s] = "recv"
    /\ m.kind # "object"
    /\ Swallow(s)

\* a handler that treats a point without timestamp or value as fatal
PointInvalidEndsSession(s, m) ==
    /\ pc[s] = "recv"
    /\ m.kind = "object"
    /\ m.timestamp = None \/ m.value = None
    /\ Swallow(s)

\* if timestamp is None or value is None: reply with the error; continue
PointInvalid(s, m) ==
    /\ pc[s] = "recv"
    /\ m.kind = "object"
    /\ m.timestamp = None \/ m.value = None
    /\ reply' = [reply EXCEPT ![s] = ErrorReply]
    /\ pc' = [pc EXCEPT ![s] = "send"]
    /\ UNCHANGED << client_id, window, closeCode, values,
                    clients, clientsTable, timeseries, now >>

\* a warm-up test that ends one point early
WarmUpOffByOne(window_points, w) == Len(window_points) + 1 < w

\* whether the handler takes the branch that skips the detectors
WarmUp(window_points, w) == Len(window_points) < w

\* values = [point[1] for point in window_points] + [value]
EnsembleInput(window_points, value) ==
    [k \in 1..Len(window_points) |-> window_points[k][2]] \o << value >>

\* a point m with both fields: read the window, classify (past the warm-up;
\* forest is the isolation forest's vote), store the point, make the reply
PointProcessed(s, m, forest) ==
    /\ pc[s] = "recv"
    /\ m.kind = "object"
    /\ m.timestamp # None /\ m.value # None
    /\ LET timestamp == Get(m.timestamp)
           value == Get(m.value)
           window_points == get_window_points(timeseries, client_id[s], window[s])
       IN  IF WarmUp(window_points, window[s])
           THEN /\ timeseries' = add_point(timeseries, client_id[s], timestamp, value, 0)
                /\ reply' = [reply EXCEPT ![s] = VerdictReply(timestamp, 0)]
                /\ UNCHANGED values
           ELSE LET anomaly == detect_anomaly(EnsembleInput(window_points, value), forest)
                IN  /\ values' = [values EXCEPT ![s] = EnsembleInput(window_points, value)]
                    /\ timeseries' = add_point(timeseries, client_id[s], timestamp, value, anomaly)
                    /\ reply' = [reply EXCEPT ![s] = VerdictReply(timestamp, anomaly)]
    /\ pc' = [pc EXCEPT ![s] = "send"]
    /\ UNCHANGED << client_id, window, closeCode, clients, clientsTable, now >>

\* get_window_points or add_point raises (sqlite3.Error) on a point m with
\* both fields: except Exception, and nothing is stored
PointStoreFails(s, m) ==
    /\ pc[s] = "recv"
    /\ m.kind = "object"
    /\ m.timestamp # None /\ m.value # None
    /\ Swallow(s)

\* the loop's receive_text raises WebSocketDisconnect
ProducerDisconnects(s, dbOk, t) ==
    /\ pc[s] = "recv"
    /\ OnDisconnect(s, client_id[s], dbOk, t)

\* await websocket.send_text(...), then back to the top of the loop, where
\* the locals of the finished iteration are dead
SendReply(s) ==
    /\ pc[s] = "send"
    /\ reply' = [reply EXCEPT ![s] = NoReply]
    /\ values' = [values EXCEPT ![s] = << >>]
    /\ pc' = [pc EXCEPT ![s] = "recv"]
    /\ UNCHANGED << client_id, window, closeCode,
                    clients, clientsTable, timeseries, now >>

\* send_text finds the producer gone: depending on the framework version it
\* raises WebSocketDisconnect or another exception
SendFails(s, asDisconnect, dbOk, t) ==
    /\ pc[s] = "send"
    /\ IF asDisconnect THEN OnDisconnect(s, client_id[s], dbOk, t) ELSE Swallow(s)

\* the steps of the server with the connections ss, whose producers send
\* the messages metas and points, and a timeseries table of at most cap rows
Serve(ss, metas, points, cap) ==
    \/ \E s \in ss : Accept(s)
    \/ \E s \in ss : DisconnectBeforeMetadata(s)
    \/ \E s \in ss, m \in metas : MetadataUndecodable(s, m)
    \/ \E s \in ss, m \in metas : MetadataRejected(s, m)
    \/ \E s \in ss, m \in metas, dbOk \in BOOLEAN, t \in Readings :
          MetadataAccepted(s, m, dbOk, t)
    \/ \E s \in ss, m \in points : PointUndecodable(s, m)
    \/ \E s \in ss, m \in points : PointInvalid(s, m)
    \/ \E s \in ss, m \in points, forest \in BOOLEAN :
          Len(timeseries) < cap /\ PointProcessed(s, m, forest)
    \/ \E s \in ss, m \in points : PointStoreFails(s, m)
    \/ \E s \in ss, dbOk \in BOOLEAN, t \in Readings :
          ProducerDisconnects(s, dbOk, t)
    \/ \E s \in ss : SendReply(s)
    \/ \E s \in ss, asDisconnect \in BOOLEAN, dbOk \in BOOLEAN, t \in Readings :
          SendFails(s, asDisconnect, dbOk, t)

Next == Serve(Sessions, MetaMsgs, PointMsgs, MaxPoints)

Spec == Init /\ [][Next]_vars

\* one connection, more rows, and values that the ensemble tells apart
NextSolo == Serve(SoloSessions, SoloMetaMsgs, SoloPointMsgs, MaxSoloPoints)

SpecSolo == Init /\ [][NextSolo]_vars

\* two connections, each producer sending values the ensemble tells apart
NextDuo == Serve(Sessions, DuoMetaMsgs, DuoPointMsgs, MaxDuoPoints)

SpecDuo == Init /\ [][NextDuo]_vars

\* one connection whose producer declares window 3 and sends the values 1
\* and 100 in any order, stamped in any order
NextScenario ==
    Serve(SoloSessions, ScenarioMetaMsgs, ScenarioPointMsgs, MaxScenarioPoints)

SpecScenario == Init /\ [][NextScenario]_vars

\* one whole pass of the handler over its first message m
ReceiveMetadata(s, m) ==
    \/ MetadataUndecodable(s, m)
    \/ MetadataRejected(s, m)
    \/ \E dbOk \in BOOLEAN, t \in Readings : MetadataAccepted(s, m, dbOk, t)

\* one whole pass of the loop body over a later message m, up to its reply
ReceivePoint(s, m) ==
    \/ PointUndecodable(s, m)
    \/ PointInvalid(s, m)
    \/ \E forest \in BOOLEAN : PointProcessed(s, m, forest)
    \/ PointStoreFails(s, m)

(***************************************************************************)
(* The store exercised on its own: any sequence of appends, for any        *)
(* producer, with timestamps in any order.                                 *)
(***************************************************************************)
StoreAppend(cid, t, v, a) ==
    /\ Len(timeseries) < MaxRows
    /\ timeseries' = add_point(timeseries, cid, t, v, a)
    /\ UNCHANGED << pc, client_id, window, reply, closeCode, values,
                    clients, clientsTable, now >>

NextStore ==
    \E cid \in ClientIds, t \in Timestamps, v \in Values, a \in {0, 1} :
        StoreAppend(cid, t, v, a)

SpecStore == Init /\ [][NextStore]_vars

(***************************************************************************)
(* The ensemble exercised on its own: detect_anomaly is called on a        *)
(* sequence that grows by one value at a time; values["s1"] is the         *)
(* sequence of the last call and reply["s1"] its verdict, numbered by the  *)
(* length of the sequence.                                                 *)
(***************************************************************************)
Classify(v, forest) ==
    LET data == Append(values["s1"], v)
    IN  /\ Len(values["s1"]) < MaxDataLen
        /\ values' = [values EXCEPT !["s1"] = data]
        /\ reply' = [reply EXCEPT
                        !["s1"] = VerdictReply(Len(data), detect_anomaly(data, forest))]
        /\ UNCHANGED << pc, client_id, window, closeCode,
                        clients, clientsTable, timeseries, now >>

NextDetect == \E v \in DetectValues, forest \in BOOLEAN : Classify(v, forest)

SpecDetect == Init /\ [][NextDetect]_vars

(***************************************************************************)
(* server.py: the HTTP queries.  They have no await and change nothing:    *)
(* each is the response the server gives in the state it is asked in.      *)
(***************************************************************************)
NotFoundStatus == 404
OkStatus == 200

\* GET /: every row of the clients table
list_clients(tbl) == get_all_clients(tbl)

\* GET /clients/{client_id}
client_details(ts, live, cid) ==
    LET points == get_all_client_points(ts, cid)
    IN  IF points = << >>
        THEN [status |-> NotFoundStatus, is_live |-> FALSE, points |-> << >>]
        ELSE [status |-> OkStatus, is_live |-> cid \in DOMAIN live,
              points |-> points]

(***************************************************************************)
(* The properties of the specification, by the number of its statement.    *)
(***************************************************************************)
\* the number of rows a producer has in the timeseries table
RowCount(cid) == Cardinality(RowsOf(timeseries, cid))

\* the row that a point message m of session s is stored as, with flag a
RowFor(s, m, a) ==
    [client_id |-> client_id[s], timestamp |-> Get(m.timestamp),
     value |-> Get(m.value), anomaly |-> a]

ValidPoint(m) == m.kind = "object" /\ m.timestamp # None /\ m.value # None

\* session s takes a step out of the receive it is suspended in
Leaves(s, at) == pc[s] = at /\ pc'[s] # at

\* C1: a valid point processed while its producer has fewer than W rows
\* (W the window its session declared) is stored with anomaly flag 0 and
\* answered with anomaly 0, whatever its value, and the handler passes
\* nothing to the ensemble.
C1_WarmUpVerdictIsZero ==
    [][\A s \in Sessions :
          (Leaves(s, "recv") /\ RowCount(client_id[s]) < window[s])
          => \A m \in AnyPointMsgs, forest \in BOOLEAN :
                PointProcessed(s, m, forest)
                => /\ timeseries' = Append(timeseries, RowFor(s, m, 0))
                   /\ reply'[s] = VerdictReply(Get(m.timestamp), 0)
                   /\ values'[s] = << >>]_vars

\* C1's case: a session with window 2, alone on the server, has stored the
\* value 100 as its second point and is about to answer it
C1_Witness ==
    \E s \in Sessions :
        /\ pc[s] = "send" /\ window[s] = 2
        /\ \A o \in Sessions \ {s} : pc[o] = "idle"
        /\ Len(timeseries) = 2
        /\ timeseries[2].value = 100 /\ timeseries[2].anomaly = 0
        /\ reply[s] = VerdictReply(timeseries[2].timestamp, 0)
        /\ values[s] = << >>

\* C2: a first message that is an object without window, or without a
\* non-empty client_id, closes the connection with code 4001; nothing is
\* registered (live-clients dict, clients table) and nothing stored; and a
\* closed session stays closed, so it never streams.
C2_MissingFieldRejected ==
    [][\A s \in Sessions :
          /\ Leaves(s, "await_meta")
             => \A m \in AnyMetaMsgs :
                   (/\ m.kind = "object"
                    /\ m.window = None \/ m.client_id \in {None, Some("")}
                    /\ ReceiveMetadata(s, m))
                   => /\ closeCode'[s] = ProtocolErrorCode
                      /\ pc'[s] = "done"
                      /\ clients' = clients
                      /\ clientsTable' = clientsTable
                      /\ timeseries' = timeseries
          /\ Closed(s) => pc'[s] = pc[s]]_vars

\* C2's case: a connection was closed with 4001 and the server holds nothing
C2_Witness ==
    \E s \in Sessions :
        /\ pc[s] = "done" /\ closeCode[s] = ProtocolErrorCode
        /\ clients = EmptyDict /\ clientsTable = EmptyDict /\ timeseries = << >>

\* metadata as the protocol wants it: an object with a non-empty client_id
\* and a positive window
ValidMetadata(m) ==
    /\ m.kind = "object"
    /\ m.client_id \notin {None, Some("")}
    /\ m.window # None /\ Get(m.window) > 0

\* C3: every first message that does not decode, is structurally invalid or
\* carries a non-positive window closes the connection with code 4001,
\* leaves the session closed and registers nothing, so that a session
\* streams only after valid metadata.
C3_InvalidMetadataClosedWith4001 ==
    [][\A s \in Sessions :
          Leaves(s, "await_meta")
          => \A m \in AnyMetaMsgs :
                (ReceiveMetadata(s, m) /\ ~ValidMetadata(m))
                => /\ closeCode'[s] = ProtocolErrorCode
                   /\ Closed(s)'
                   /\ clients' = clients
                   /\ clientsTable' = clientsTable]_vars

\* C4: a decoded message without timestamp or without value is answered with
\* the reply {"error": "Invalid data point"}: nothing is stored, the session
\* keeps streaming with its client_id and window, and once that reply is
\* sent the session is back at its receive, where a valid point is processed
\* as any other.
C4_InvalidPointAnswered ==
    [][\A s \in Sessions :
          /\ Leaves(s, "recv")
             => \A m \in AnyPointMsgs :
                   (/\ m.kind = "object"
                    /\ m.timestamp = None \/ m.value = None
                    /\ ReceivePoint(s, m))
                   => /\ reply'[s] = ErrorReply
                      /\ pc'[s] = "send"
                      /\ timeseries' = timeseries
                      /\ client_id'[s] = client_id[s] /\ window'[s] = window[s]
                      /\ clients' = clients /\ clientsTable' = clientsTable
          /\ (pc[s] = "send" /\ reply[s] = ErrorReply /\ SendReply(s))
             => /\ pc'[s] = "recv"
                /\ client_id'[s] = client_id[s] /\ window'[s] = window[s]
                /\ timeseries' = timeseries]_vars

\* C4's case: a session that has stored a point is about to send the error
\* reply, still streaming
C4_Witness ==
    \E s \in Sessions :
        /\ pc[s] = "send" /\ reply[s] = ErrorReply
        /\ RowCount(client_id[s]) > 0
        /\ client_id[s] \in DOMAIN clients

\* a message that is no valid point
Malformed(m) == ~ValidPoint(m)

\* C5: every malformed message in STREAMING, one that does not decode
\* included, is answered with an error reply, stores nothing and leaves the
\* session streaming.
C5_MalformedNeverEndsSession ==
    [][\A s \in Sessions :
          Leaves(s, "recv")
          => \A m \in AnyPointMsgs :
                (ReceivePoint(s, m) /\ Malformed(m))
                => /\ reply'[s] = ErrorReply
                   /\ Streaming(s)'
                   /\ timeseries' = timeseries]_vars

\* C6: a valid point whose pipeline runs to its end gets one reply, which is
\* sent before the session reads again: a reply is pending exactly while the
\* session is about to send, so no message is read before the reply to the
\* one before it is sent, and sending it leaves none pending.  The reply
\* carries the request's timestamp and an anomaly in {0, 1} that is the flag
\* of the row stored for the point.
C6_OneReplyPerPoint ==
    [][\A s \in Sessions :
          /\ Leaves(s, "recv")
             => \A m \in AnyPointMsgs, forest \in BOOLEAN :
                   PointProcessed(s, m, forest)
                   => /\ pc'[s] = "send"
                      /\ reply'[s].kind = "verdict"
                      /\ reply'[s].timestamp = Get(m.timestamp)
                      /\ reply'[s].anomaly \in {0, 1}
                      /\ timeseries' =
                             Append(timeseries, RowFor(s, m, reply'[s].anomaly))
          /\ (pc[s] = "send") <=> (reply[s] # NoReply)
          /\ (pc[s] = "send" /\ pc'[s] = "recv")
             => /\ reply'[s] = NoReply
                /\ timeseries' = timeseries]_vars

\* C6's case: a point was classified anomalous and its reply is pending
C6_Witness ==
    \E s \in Sessions :
        /\ pc[s] = "send"
        /\ reply[s].kind = "verdict" /\ reply[s].anomaly = 1
        /\ timeseries # << >>
        /\ timeseries[Len(timeseries)].anomaly = 1
        /\ timeseries[Len(timeseries)].timestamp = reply[s].timestamp

\* C7: no exception leaves ws_handler, whatever the producer and the
\* transport do.
C7_NothingEscapesHandler == \A s \in Sessions : pc[s] # "raised"

\* C8: whenever a streaming session becomes closed, its producer is no longer
\* in the live-clients dict and its last_seen is the time of that step.
C8_RegistryUpdatedOnClose ==
    [][\A s \in Sessions :
          (Streaming(s) /\ Closed(s)')
          => /\ client_id[s] \notin DOMAIN clients'
             /\ client_id[s] \in DOMAIN clientsTable'
             /\ clientsTable'[client_id[s]] = now']_vars

\* C9: when the store raises on a valid point, the producer gets an error
\* reply for that message, the point is not stored, and the session keeps
\* streaming.
C9_StoreFailureAnswered ==
    [][\A s \in Sessions :
          Leaves(s, "recv")
          => \A m \in AnyPointMsgs :
                PointStoreFails(s, m)
                => /\ reply'[s] = ErrorReply
                   /\ Streaming(s)'
                   /\ timeseries' = timeseries]_vars

\* C10: for every producer and every window size W >= 0, after any sequence
\* of appends get_window_points returns at most W entries, in non-decreasing
\* timestamp order, entries of equal timestamp in insertion (rowid) order; it
\* returns the empty sequence for a producer without rows.
C10_WindowOrdered ==
    \A cid \in ClientIds, w \in 0..MaxWindow :
        LET ids == WindowRowids(timeseries, cid, w)
            points == get_window_points(timeseries, cid, w)
        IN  /\ Len(points) <= w
            /\ Len(points) = Len(ids)
            /\ \A k \in 1..Len(points) :
                 /\ timeseries[ids[k]].client_id = cid
                 /\ points[k] = << timeseries[ids[k]].timestamp,
                                   timeseries[ids[k]].value >>
            /\ \A i, j \in 1..Len(points) :
                 i < j => \/ points[i][1] < points[j][1]
                          \/ points[i][1] = points[j][1] /\ ids[i] < ids[j]
            /\ RowsOf(timeseries, cid) = {} => points = << >>

\* C10's case: a producer with three rows, appended with a timestamp going
\* back and one repeated, is read with window 2: the two rows of equal
\* timestamp come back, the older one first
C10_Witness ==
    \E cid \in ClientIds :
        /\ Len(timeseries) = 3
        /\ \A i \in 1..3 : timeseries[i].client_id = cid
        /\ timeseries[1].timestamp = 2
        /\ timeseries[2].timestamp = 1
        /\ timeseries[3].timestamp = 2
        /\ timeseries[1].value = 100 /\ timeseries[3].value = 1
        /\ get_window_points(timeseries, cid, 2) = << << 2, 100 >>, << 2, 1 >> >>

\* the rows of producer cid, in the order they were stored
OwnRows(ts, cid) == SelectSeq(ts, LAMBDA r : r.client_id = cid)

\* the values of a window followed by the candidate
EnsembleInputOf(window_points, v) ==
    [i \in 1..(Len(window_points) + 1) |->
        IF i <= Len(window_points) THEN window_points[i][2] ELSE v]

\* the flag the handler gives a point of value v when the table holds the
\* rows own of its producer cid and nothing else
VerdictOn(own, cid, w, v, forest) ==
    LET window_points == get_window_points(own, cid, w)
    IN  IF Len(window_points) < w
        THEN 0
        ELSE detect_anomaly(EnsembleInputOf(window_points, v), forest)

\* C11: with two connections streaming in any interleaving, every step keeps
\* each producer's rows in the order they were stored; a step of a session
\* that stores a row appends it as the last row of its own producer and
\* leaves the rows of every other producer as they are; and what the
\* ensemble is given, the flag the row is stored with and the verdict of the
\* reply are those the same point gets when the table holds its own
\* producer's rows only (for one of the votes the isolation forest can cast).
C11_ProducersIndependent ==
    [][timeseries' # timeseries
       => /\ \A cid \in ClientIds :
                LET before == OwnRows(timeseries, cid)
                    after == OwnRows(timeseries', cid)
                IN  /\ Len(before) <= Len(after)
                    /\ SubSeq(after, 1, Len(before)) = before
          /\ \A s \in Sessions :
                Leaves(s, "recv")
                => LET cid == client_id[s]
                       own == OwnRows(timeseries, cid)
                       r == timeseries'[Len(timeseries')]
                       window_points == get_window_points(own, cid, window[s])
                   IN  /\ r.client_id = cid
                       /\ OwnRows(timeseries', cid) = Append(own, r)
                       /\ \A o \in ClientIds \ {cid} :
                             OwnRows(timeseries', o) = OwnRows(timeseries, o)
                       /\ reply'[s] = VerdictReply(r.timestamp, r.anomaly)
                       /\ values'[s] = IF Len(window_points) < window[s]
                                       THEN << >>
                                       ELSE EnsembleInputOf(window_points, r.value)
                       /\ \E forest \in BOOLEAN :
                             r.anomaly = VerdictOn(own, cid, window[s], r.value, forest)]_vars

\* C11's case: two producers stream at once; the rows of the one that was
\* flagged are interleaved with the rows of the other
C11_Witness ==
    \E s, o \in Sessions :
        /\ s # o /\ Streaming(s) /\ Streaming(o)
        /\ client_id[s] # client_id[o]
        /\ Len(timeseries) = 4
        /\ timeseries[1].client_id = client_id[s]
        /\ timeseries[2].client_id = client_id[o]
        /\ timeseries[3].client_id = client_id[s]
        /\ timeseries[4].client_id = client_id[s]
        /\ timeseries[4].anomaly = 1

\* C12: the producer-detail query answers "not found" for a producer that
\* was never registered and, for every producer in the clients table, one
\* without rows included, answers with its rows as (timestamp, value,
\* anomaly) triples in ascending timestamp order and with whether it is in
\* the live-clients dict.
C12_DetailForRegistered ==
    \A cid \in ClientIds :
        LET d == client_details(timeseries, clients, cid)
        IN  IF cid \in DOMAIN clientsTable
            THEN /\ d.status = OkStatus
                 /\ d.is_live = (cid \in DOMAIN clients)
                 /\ Len(d.points) = RowCount(cid)
                 /\ \A i, j \in 1..Len(d.points) :
                       i < j => d.points[i][1] <= d.points[j][1]
            ELSE d.status = NotFoundStatus

\* session s leaves STREAMING through except WebSocketDisconnect
EndsByDisconnect(s) ==
    \E dbOk \in BOOLEAN, t \in Readings :
        \/ ProducerDisconnects(s, dbOk, t)
        \/ SendFails(s, TRUE, dbOk, t)

\* C13: no step removes a row of the clients table, and when a streaming
\* session ends by disconnect its producer is still in the clients table,
\* and the producer-detail query answers with every row stored for it, as
\* it was, and reports it as not connected.
C13_HistorySurvivesDisconnect ==
    [][/\ DOMAIN clientsTable \subseteq DOMAIN clientsTable'
       /\ \A s \in Sessions :
             (Streaming(s) /\ Closed(s)' /\ EndsByDisconnect(s))
             => LET cid == client_id[s]
                    d == client_details(timeseries', clients', cid)
                IN  /\ cid \in DOMAIN clientsTable'
                    /\ d.status = OkStatus
                    /\ d.points = get_all_client_points(timeseries, cid)
                    /\ ~d.is_live]_vars

\* C14: a producer that declared window 3 has each of its first three points stored with flag 0, and
\* when these carried the values 1, 1, 1 and the fourth carries 100, the
\* fourth is stored with flag 1; the reply pending for a point carries the
\* flag it was stored with.
C14_ScenarioVerdicts ==
    LET n == Len(timeseries)
    IN  /\ \A k \in 1..n : k <= 3 => timeseries[k].anomaly = 0
        /\ (/\ n >= 4
            /\ \A k \in 1..3 : timeseries[k].value = 1
            /\ timeseries[4].value = 100)
           => timeseries[4].anomaly = 1
        /\ \A s \in SoloSessions :
              (pc[s] = "send" /\ reply[s].kind = "verdict")
              => reply[s] = VerdictReply(timeseries[n].timestamp,
                                         timeseries[n].anomaly)

\* C14's case: the values 1, 1, 1, 100 are stored with timestamps 1 to 4
\* and the reply to the fourth is pending
C14_Witness ==
    /\ Len(timeseries) = 4
    /\ \A k \in 1..4 : timeseries[k].timestamp = k
    /\ \A k \in 1..3 : timeseries[k].value = 1
    /\ timeseries[4].value = 100
    /\ pc["s1"] = "send" /\ window["s1"] = 3
    /\ reply["s1"] = VerdictReply(4, 1)

\* the sequence of the end-to-end scenario: window [1, 1, 1], candidate 100
ScenarioData == << 1, 1, 1, 100 >>

\* C15 as stated: on [1, 1, 1, 100] the Z-score, the IQR and the
\* modified-Z-score detectors each vote anomalous.
C15_ThreeDetectorsVote ==
    values["s1"] = ScenarioData
    => /\ z_score_detector(values["s1"])
       /\ iqr_detector(values["s1"])
       /\ modified_z_score_detector(values["s1"])

\* C15, amended: on [1, 1, 1, 100] the IQR detector, the EWMA detector and
\* the isolation forest vote anomalous; the Z-score detector (z is the square
\* root of 3), the moving-average detector (fewer than 5 values) and the
\* modified-Z-score detector (the MAD is 0) vote not anomalous.
C15_VotesOnScenario ==
    values["s1"] = ScenarioData
    => \A forest \in BOOLEAN :
          anomaly_votes(values["s1"], forest)
              = << FALSE, TRUE, TRUE, FALSE, FALSE, TRUE >>

\* C15's case: the ensemble was called on [1, 1, 1, 100]
C15_Witness ==
    /\ values["s1"] = ScenarioData
    /\ reply["s1"] = VerdictReply(4, 1)

\* the number of detectors voting anomalous
Yes(votes) == Cardinality({ i \in 1..Len(votes) : votes[i] })

\* C16: for every combination of the six votes, the verdict is 1 exactly
\* when at least 3 of them are anomalous, and the verdict detect_anomaly
\* returns for a sequence is the verdict of the votes its detectors cast.
C16_VotingRule ==
    [][/\ \A votes \in [1..6 -> BOOLEAN] :
             Vote(votes) = IF Yes(votes) >= 3 THEN 1 ELSE 0
       /\ \A v \in DetectValues, forest \in BOOLEAN :
             Classify(v, forest)
             => LET votes == anomaly_votes(values'["s1"], forest)
                IN  /\ Len(votes) = 6
                    /\ reply'["s1"].anomaly = IF Yes(votes) >= 3 THEN 1 ELSE 0]_vars

\* C16's case: exactly three detectors voted anomalous and the verdict is 1
C16_Witness ==
    /\ values["s1"] = << 1, 2, 100 >>
    /\ Yes(anomaly_votes(values["s1"], TRUE)) = 3
    /\ reply["s1"] = VerdictReply(3, 1)

\* a sequence whose values are all the same
Constant(d) == \A i \in 1..Len(d) : d[i] = d[1]

\* the median absolute deviation from the median, times 4
MadOf(d) ==
    MedianTimes2([i \in 1..Len(d) |-> Abs(2 * d[i] - MedianTimes2(d))])

\* C17: the moving-average detector votes not anomalous on every sequence
\* of fewer than 5 values and on every constant sequence; the
\* modified-Z-score detector votes not anomalous on every constant sequence
\* and whenever the MAD is 0.
C17_DegenerateInputsVoteNo ==
    LET d == values["s1"]
    IN  d # << >>
        => /\ Len(d) < 5 => ~moving_average_detector(d)
           /\ Constant(d) => /\ ~moving_average_detector(d)
                             /\ ~modified_z_score_detector(d)
           /\ MadOf(d) = 0 => ~modified_z_score_detector(d)

\* C17's case: a sequence of five values, not constant, whose MAD is 0
C17_Witness ==
    /\ values["s1"] = << 1, 1, 1, 1, 100 >>
    /\ MadOf(values["s1"]) = 0
    /\ moving_average_detector(values["s1"])

\* C18: every step leaves the rows of the timeseries table as they are and
\* adds at most one row, at the end; a step in which a session accepts a
\* point (it goes on to answer with a verdict) adds exactly one row, which
\* carries the session's producer and the timestamp and flag of the answer;
\* a step in which a session answers with an error or ends adds none; and
\* no step that is not the receipt of a message adds a row.
C18_AppendOnlyExactlyOnce ==
    [][/\ Len(timeseries') \in {Len(timeseries), Len(timeseries) + 1}
       /\ SubSeq(timeseries', 1, Len(timeseries)) = timeseries
       /\ (\A s \in Sessions : ~Leaves(s, "recv")) => timeseries' = timeseries
       /\ \A s \in Sessions :
             Leaves(s, "recv")
             => IF reply'[s].kind = "verdict"
                THEN /\ Len(timeseries') = Len(timeseries) + 1
                     /\ LET r == timeseries'[Len(timeseries')]
                        IN  /\ r.client_id = client_id[s]
                            /\ r.timestamp = reply'[s].timestamp
                            /\ r.anomaly = reply'[s].anomaly
                ELSE timeseries' = timeseries]_vars

\* C18's case: two producers have a row each, the second row was stored
\* after the first, and a session has just been answered an error
C18_Witness ==
    /\ Len(timeseries) = 2
    /\ timeseries[1].client_id # timeseries[2].client_id
    /\ \E s \in Sessions :
          /\ pc[s] = "send" /\ reply[s] = ErrorReply
          /\ client_id[s] = timeseries[1].client_id

\* C19: whenever the ensemble was invoked for a point of a session that
\* declared window W, its input has W + 1 values: the values of W rows of
\* the session's producer followed by the value of the point, whose own row
\* is stored after the vote, so that the producer then has at least W + 1
\* rows.
C19_EnsembleInputLength ==
    \A s \in Sessions :
        values[s] # << >>
        => /\ Len(values[s]) = window[s] + 1
           /\ RowCount(client_id[s]) >= window[s] + 1
           /\ reply[s].kind = "verdict"

\* the rowids of the n rows of producer cid that were stored last
LastStored(cid, n) ==
    { i \in RowsOf(timeseries, cid) :
        Cardinality({ j \in RowsOf(timeseries, cid) : j > i }) < n }

\* the elements of a sequence
Range(f) == { f[i] : i \in DOMAIN f }

\* the rows of producer cid carry timestamps that never go back
Monotonic(cid) ==
    \A i, j \in RowsOf(timeseries, cid) :
        i < j => timeseries[i].timestamp <= timeseries[j].timestamp

\* C20 as stated: for every producer with n rows and every window size
\* W >= 1, the window read consists of the min(W, n) rows stored last,
\* whatever the order of the timestamps.
C20_WindowIsLastStored ==
    \A cid \in ClientIds, w \in 1..MaxWindow :
        Range(WindowRowids(timeseries, cid, w))
            = LastStored(cid, Min(w, RowCount(cid)))

\* C20, amended: for every producer with n rows, the window read is taken
\* from all n rows and consists, for W >= 0, of the min(W, n) rows with the
\* largest timestamps (of rows with equal timestamps, those stored last) and,
\* for a negative W, of all n rows; when the producer's timestamps never go
\* back, these are the rows stored last, in the order they were stored.
C20_WindowIsLargestTimestamps ==
    \A cid \in ClientIds, w \in (-1)..MaxWindow :
        LET ids == WindowRowids(timeseries, cid, w)
            own == RowsOf(timeseries, cid)
            n == RowCount(cid)
        IN  /\ Range(ids) \subseteq own
            /\ Cardinality(Range(ids)) = Len(ids)
            /\ Len(ids) = IF w < 0 THEN n ELSE Min(w, n)
            /\ \A i \in Range(ids), j \in own \ Range(ids) :
                  \/ timeseries[j].timestamp < timeseries[i].timestamp
                  \/ /\ timeseries[j].timestamp = timeseries[i].timestamp
                     /\ j < i
            /\ Monotonic(cid)
               => /\ Range(ids) = LastStored(cid, Len(ids))
                  /\ \A a, b \in 1..Len(ids) : a < b => ids[a] < ids[b]

\* C20's case: a producer stored a point stamped 2 and then a point stamped
\* 1; a window of size 1 holds the first, not the one stored last
C20_Witness ==
    \E cid \in ClientIds :
        /\ Len(timeseries) = 2
        /\ \A i \in 1..2 : timeseries[i].client_id = cid
        /\ timeseries[1].timestamp = 2 /\ timeseries[2].timestamp = 1
        /\ WindowRowids(timeseries, cid, 1) = << 1 >>

=============================================================================
